---- MODULE Spec2Model ----
(***************************************************************************)
(* Model of the workflow engine of src/core/workflow_engine.py together    *)
(* with the agent registry of src/agents/base_agent.py.                    *)
(*                                                                         *)
(* The engine runs on an asyncio event loop.  A coroutine runs without     *)
(* interruption from one await to the next, and the loop runs the          *)
(* callbacks of its ready queue first in, first out.  loop_ready is that   *)
(* queue.  Its callbacks, each one action of the model, are                *)
(*   execute_workflow  the coroutine from its first line to its first      *)
(*                     `await asyncio.gather` (or to its return);          *)
(*   start_task        _execute_task from its first line to                *)
(*                     `await agent.process_task`;                         *)
(*   finish_task       _execute_task from the end of that await on;        *)
(*   gather_done       the done-callback by which gather learns that its   *)
(*                     last coroutine finished, and wakes its awaiter;     *)
(*   resume_workflow   execute_workflow from the return of a gather to     *)
(*                     the next gather or to its return.                   *)
(* What arrives from outside the loop arrives at any moment: a caller      *)
(* scheduling execute_workflow (call_execute), an executor finishing its   *)
(* work (process_task_done), and the synchronous create_workflow,          *)
(* cancel_workflow, get_workflow_status and register_agent, which the     *)
(* user interface calls from its own thread.                               *)
(* Python's None is the empty sequence, Some(v) the one-element sequence;  *)
(* a dict is a function; a datetime is abstracted to "is set".             *)
(***************************************************************************)
EXTENDS Integers, Sequences, FiniteSets, TLC

\* ---------------------------------------------------------------- bounds
MaxWorkflows == 1      \* workflows created in one run
MaxCalls == 2          \* execute_workflow calls made in one run
WideTasks == 6         \* tasks of the wide workflow: one more than a batch
MaxWideCalls == 1      \* execute_workflow calls made on the wide workflow
ConcurrentWorkflows == 2  \* workflows created where workflows run side by side
ConcurrentCalls == 2      \* execute_workflow calls made on them
RacingWorkflows == 2      \* workflows created whose tasks write one key
RacingCalls == 2          \* execute_workflow calls made on them
CreatedWorkflows == 2     \* workflows created from unusual task definitions
CreatedCalls == 1         \* execute_workflow calls made on them

\* ------------------------------------------------------------- constants
max_concurrent_tasks == 5

None == <<>>
Some(v) == <<v>>

PENDING == "pending"
RUNNING == "running"
COMPLETED == "completed"
FAILED == "failed"
CANCELLED == "cancelled"
SKIPPED == "skipped"

WorkflowStatus == {PENDING, RUNNING, COMPLETED, FAILED, CANCELLED}
TaskStatus == {PENDING, RUNNING, COMPLETED, FAILED, SKIPPED}

EmptyDict == <<>>

\* ------------------------------------------------- executors (the inputs)
\* What agent.process_task can do once awaited: return a result dict or
\* raise.  BaseAgent.process_task returns a dict with success True, or the
\* dict ResultSoft when it caught an exception (base_agent.py lines 106-122);
\* a subclass overriding it may raise.
ResultHello == ("success" :> TRUE) @@ ("result_text" :> "hello")
ResultPlain == ("success" :> TRUE) @@ ("agent" :> "steady")
ResultSoft == ("success" :> FALSE) @@ ("error" :> "boom")

\* An exception is known by its message, str(e): a tuple of words.
Returns(r) == [kind |-> "return", value |-> r]
Raises(exc) == [kind |-> "raise", value |-> exc]

\* The agent instances that can be registered.  "worker" may succeed, report
\* a failure or raise; "steady" always succeeds.  No instance is named "ghost".
AgentPool ==
  << [name |-> "worker",
      outcomes |-> {Returns(ResultHello), Returns(ResultSoft),
                    Raises(<<"boom">>)}],
     [name |-> "steady", outcomes |-> {Returns(ResultPlain)}] >>

\* A second instance that declares the name "worker"; it always succeeds.
SecondWorker == [name |-> "worker", outcomes |-> {Returns(ResultHello)}]

\* Every agent instance there is: the registry maps names to these.
AllAgents == AgentPool \o <<SecondWorker>>

\* ------------------------------------------- task definitions (the inputs)
\* A Python value whose type the code's behaviour depends on carries it.
PyDict(d) == [type |-> "dict", items |-> d]
PyList(l) == [type |-> "list", items |-> l]

\* "dependencies": None in a task definition, which create_workflow takes as
\* it is (line 154): the value is no list of ids, and iterating it raises
\* TypeError.  No list of task ids equals it.
NoDependencyList == {"<None>"}

TaskDef(id, agent, deps, ctx) ==
  [id |-> id, name |-> id, agent_name |-> agent, dependencies |-> deps,
   context |-> ctx]

\* A task definition without the key "id".
AnonymousTaskDef(name, agent, deps, ctx) ==
  [name |-> name, agent_name |-> agent, dependencies |-> deps,
   context |-> ctx]

\* "summary" is read from a field the worker's successful result has, "note"
\* from one it has not (only the result that reports a failure has "error").
SummaryDirective ==
  ("update_global_context" :>
     PyDict(("summary" :> "result_text") @@ ("note" :> "error")))

\* The same key "summary", read from a field the steady agent's result has.
AgentDirective ==
  ("update_global_context" :> PyDict(("summary" :> "agent")))
\* Only "summary", read from the worker's result.
TextDirective ==
  ("update_global_context" :> PyDict(("summary" :> "result_text")))

\* A directive that is a list of keys, not a mapping: create_workflow takes
\* the context as the caller gives it (line 155).
ListDirective == ("update_global_context" :> PyList(<<"summary">>))

ChainTasks ==
  << TaskDef("t1", "worker", {}, SummaryDirective),
     TaskDef("t2", "worker", {"t1"}, ("summary" :> "draft")) >>
PairTasks ==
  << TaskDef("t1", "worker", {}, EmptyDict),
     TaskDef("t2", "steady", {}, EmptyDict) >>
DanglingTasks ==
  << TaskDef("t1", "steady", {}, EmptyDict),
     TaskDef("t2", "steady", {"t1", "nope"}, EmptyDict) >>
GhostTasks ==
  << TaskDef("t1", "ghost", {}, EmptyDict),
     TaskDef("t2", "steady", {"t1"}, EmptyDict) >>
CycleTasks ==
  << TaskDef("t1", "steady", {"t1"}, EmptyDict) >>
RaceTasks ==
  << TaskDef("t1", "worker", {}, TextDirective),
     TaskDef("t2", "steady", {}, AgentDirective) >>
NoneDependenciesTasks ==
  << TaskDef("t1", "steady", {}, EmptyDict),
     TaskDef("t2", "steady", NoDependencyList, EmptyDict) >>
AnonymousTasks ==
  << AnonymousTaskDef("first", "steady", {}, EmptyDict),
     AnonymousTaskDef("second", "steady", {}, EmptyDict),
     TaskDef("t3", "worker", {}, EmptyDict) >>
DuplicateIdTasks ==
  << TaskDef("t1", "steady", {}, EmptyDict),
     TaskDef("t1", "worker", {}, EmptyDict) >>
ListDirectiveTasks ==
  << TaskDef("t1", "steady", {}, ListDirective) >>
NoTasks == << >>
WideTaskIds == <<"t1", "t2", "t3", "t4", "t5", "t6", "t7", "t8">>
WideTasksDef ==
  [i \in 1..WideTasks |-> TaskDef(WideTaskIds[i], "steady", {}, EmptyDict)]

TaskLists ==
  {ChainTasks, PairTasks, DanglingTasks, GhostTasks, CycleTasks,
   ListDirectiveTasks, NoTasks}

\* ------------------------------------------------------------------ state
VARIABLES
  agents,            \* agent_registry._agents: name -> index into AllAgents
  workflows,         \* the Workflow objects: workflow id -> Workflow
  active_workflows,  \* keys of engine.active_workflows
  workflow_history,  \* engine.workflow_history (a list of Workflow objects)
  calls,             \* the execute_workflow invocations, in call order
  loop_ready,        \* the event loop's queue of callbacks that are ready
  cancel_result,     \* workflow id -> what the last cancel_workflow(id) returned
  status_result      \* what get_workflow_status returned, while it is the
                     \* latest operation made; None otherwise

vars ==
  <<agents, workflows, active_workflows, workflow_history, calls, loop_ready,
    cancel_result, status_result>>

\* The ids a caller can pass: those create_workflow returned, and 0 for an
\* id that no workflow ever had.
WorkflowIds == 0..Len(workflows)

\* How often workflow wid is in the history.
Archived(wid) ==
  Cardinality({h \in 1..Len(workflow_history) : workflow_history[h] = wid})

\* ---------------------------------------------------------------- Workflow
\* Workflow.get_task: index of the first task with this id, 0 when absent.
get_task(w, task_id) ==
  LET hits == {i \in 1..Len(w.tasks) : w.tasks[i].id = task_id}
  IN IF hits = {} THEN 0 ELSE CHOOSE i \in hits : \A j \in hits : i <= j

\* A variant that lets a dependency id that matches no task pass.
dependencies_completed_lenient(w, task) ==
  \A dep_id \in task.dependencies :
    \/ get_task(w, dep_id) = 0
    \/ w.tasks[get_task(w, dep_id)].status = COMPLETED

\* Lines 96-99: every dependency id resolves to a task that is COMPLETED.
dependencies_completed(w, task) ==
  \A dep_id \in task.dependencies :
    /\ get_task(w, dep_id) /= 0
    /\ w.tasks[get_task(w, dep_id)].status = COMPLETED

\* Workflow.get_ready_tasks, as the sequence of task indices: the loop over
\* self.tasks from position i on.
RECURSIVE ready_from(_, _)
ready_from(w, i) ==
  IF i > Len(w.tasks) THEN << >>
  ELSE (IF /\ w.tasks[i].status = PENDING
           /\ dependencies_completed(w, w.tasks[i])
        THEN <<i>> ELSE << >>) \o ready_from(w, i + 1)

get_ready_tasks(w) == ready_from(w, 1)

get_completed_tasks(w) ==
  {i \in 1..Len(w.tasks) : w.tasks[i].status = COMPLETED}

get_failed_tasks(w) ==
  {i \in 1..Len(w.tasks) : w.tasks[i].status = FAILED}

pending_tasks(w) ==
  {i \in 1..Len(w.tasks) : w.tasks[i].status = PENDING}

\* ---------------------------------------------------------------- Registry
\* AgentRegistry.get_agent: the index of the instance, 0 for None.
get_agent(name) == IF name \in DOMAIN agents THEN agents[name] ELSE 0

\* A variant that forgets every other name.
register_agent_alone(i) ==
  /\ agents' = [n \in {AllAgents[i].name} |-> i]
  /\ UNCHANGED <<workflows, active_workflows, workflow_history, calls,
                 loop_ready, cancel_result>>

\* AgentRegistry.register_agent
register_agent(i) ==
  /\ agents' = [n \in DOMAIN agents \cup {AllAgents[i].name} |->
                  IF n = AllAgents[i].name THEN i ELSE agents[n]]
  /\ UNCHANGED <<workflows, active_workflows, workflow_history, calls,
                 loop_ready, cancel_result>>

\* ------------------------------------------------------------------- Init
Init ==
  /\ agents = << >>
  /\ workflows = << >>
  /\ active_workflows = {}
  /\ workflow_history = << >>
  /\ calls = << >>
  /\ loop_ready = << >>
  /\ cancel_result = << >>
  /\ status_result = None

\* ---------------------------------------------------------- create_workflow
\* str(uuid.uuid4()) for the task at position i: uuid4 never repeats, and no
\* caller's id equals one.
TaskUuids ==
  <<"uuid-1", "uuid-2", "uuid-3", "uuid-4", "uuid-5", "uuid-6", "uuid-7",
    "uuid-8">>

\* task_def.get("id", str(uuid.uuid4())) (line 150)
task_id(d, i) == IF "id" \in DOMAIN d THEN d.id ELSE TaskUuids[i]

NewTask(d, i) ==
  [id |-> task_id(d, i), name |-> d.name, agent_name |-> d.agent_name,
   dependencies |-> d.dependencies, context |-> d.context,
   status |-> PENDING, result |-> None, error |-> None,
   start_time |-> FALSE, end_time |-> FALSE]

NewWorkflow(id, defs) ==
  [id |-> id, name |-> "workflow", created_at |-> TRUE,
   tasks |-> [i \in 1..Len(defs) |-> NewTask(defs[i], i)],
   status |-> PENDING, start_time |-> FALSE, end_time |-> FALSE,
   global_context |-> EmptyDict]

\* A variant that keeps only the new workflow in the active set.
create_workflow_replacing(defs) ==
  LET workflow_id == Len(workflows) + 1 IN
  /\ workflows' = Append(workflows, NewWorkflow(workflow_id, defs))
  /\ active_workflows' = {workflow_id}
  /\ UNCHANGED <<agents, workflow_history, calls, loop_ready, cancel_result>>

\* uuid4 never repeats: the new id is the first one not yet handed out.
create_workflow(defs) ==
  LET workflow_id == Len(workflows) + 1 IN
  /\ workflows' = Append(workflows, NewWorkflow(workflow_id, defs))
  /\ active_workflows' = active_workflows \cup {workflow_id}
  /\ UNCHANGED <<agents, workflow_history, calls, loop_ready, cancel_result>>

\* --------------------------------------------------------- the event loop
Callback(kind, c, k, outcome) ==
  [kind |-> kind, call |-> c, job |-> k, outcome |-> outcome]

NoOutcome == [kind |-> "none", value |-> << >>]

\* The callback the loop runs next.
RunsNext(cb) == loop_ready /= << >> /\ Head(loop_ready) = cb

\* --------------------------------------------------------- execute_workflow
Min(a, b) == IF a < b THEN a ELSE b

\* A variant that dispatches the whole ready list.
tasks_to_execute_uncapped(ready_tasks) == ready_tasks

\* A variant that takes the end of the ready list.
tasks_to_execute_last(ready_tasks) ==
  SubSeq(ready_tasks,
         Len(ready_tasks) - Min(Len(ready_tasks), max_concurrent_tasks) + 1,
         Len(ready_tasks))

\* ready_tasks[:self.max_concurrent_tasks]
tasks_to_execute(ready_tasks) ==
  SubSeq(ready_tasks, 1, Min(Len(ready_tasks), max_concurrent_tasks))

\* The coroutines asyncio.gather wraps in tasks for a batch (lines 216-219):
\* none has run yet.
NewJobs(batch) ==
  [k \in 1..Len(batch) |->
     [task |-> batch[k], pc |-> "queued", agent |-> 0, raised |-> FALSE,
      context |-> EmptyDict]]

\* gather schedules the first step of each of them, in the order given.
StartCallbacks(c, batch) ==
  [k \in 1..Len(batch) |-> Callback("start", c, k, NoOutcome)]

\* The branch of the loop taken when nothing is ready (lines 195-210).
no_ready_tasks(w) ==
  IF pending_tasks(w) = {} THEN w
  ELSE IF get_failed_tasks(w) /= {} THEN [w EXCEPT !.status = FAILED]
  ELSE w

\* A variant that decides nothing when tasks remain and none has failed.
final_status_undecided(w) ==
  IF w.status = RUNNING
  THEN IF get_failed_tasks(w) /= {} THEN [w EXCEPT !.status = FAILED]
       ELSE IF Cardinality(get_completed_tasks(w)) = Len(w.tasks)
            THEN [w EXCEPT !.status = COMPLETED]
            ELSE w
  ELSE w

\* A variant that takes a workflow without failed tasks for completed.
final_status_optimistic(w) ==
  IF w.status = RUNNING
  THEN IF get_failed_tasks(w) /= {} THEN [w EXCEPT !.status = FAILED]
       ELSE [w EXCEPT !.status = COMPLETED]
  ELSE w

\* A variant that takes a workflow for completed only if a task completed.
final_status_needing_work(w) ==
  IF w.status = RUNNING
  THEN IF get_failed_tasks(w) /= {} THEN [w EXCEPT !.status = FAILED]
       ELSE IF /\ Cardinality(get_completed_tasks(w)) = Len(w.tasks)
               /\ Len(w.tasks) > 0
            THEN [w EXCEPT !.status = COMPLETED]
            ELSE [w EXCEPT !.status = FAILED]
  ELSE w

\* "Determine final workflow status" (lines 221-231).
final_status(w) ==
  IF w.status = RUNNING
  THEN IF get_failed_tasks(w) /= {} THEN [w EXCEPT !.status = FAILED]
       ELSE IF Cardinality(get_completed_tasks(w)) = Len(w.tasks)
            THEN [w EXCEPT !.status = COMPLETED]
            ELSE [w EXCEPT !.status = FAILED]
  ELSE w

\* The dict execute_workflow returns after archiving (lines 241-258).
Outcome(w) ==
  [workflow_id |-> w.id,
   status |-> w.status,
   duration |-> w.start_time /\ w.end_time,
   completed_tasks |-> Cardinality(get_completed_tasks(w)),
   total_tasks |-> Len(w.tasks),
   failed_tasks |-> Cardinality(get_failed_tasks(w)),
   results |-> [i \in 1..Len(w.tasks) |->
                  [task_id |-> w.tasks[i].id, task_name |-> w.tasks[i].name,
                   status |-> w.tasks[i].status, result |-> w.tasks[i].result,
                   error |-> w.tasks[i].error]]]

\* {"error": f"Workflow {workflow_id} not found"} (line 183)
NotFoundError == [error |-> <<"Workflow", "not found">>]
\* {"error": f"Workflow execution failed: {str(e)}"} (line 264)
ExecutionFailedError == [error |-> <<"Workflow execution failed">>]

Returned(wid, value) ==
  [workflow_id |-> wid, pc |-> "returned", batch |-> << >>,
   result |-> Some(value)]

\* The handler of `except Exception` in execute_workflow (lines 260-264).
workflow_error(w) == [w EXCEPT !.status = FAILED, !.end_time = TRUE]

\* Lines 221-258: the code after the loop, with the KeyError that
\* `del self.active_workflows[workflow_id]` raises when the id is gone.
finish_workflow(c, wid, w, rest) ==
  LET done == [final_status(w) EXCEPT !.end_time = TRUE] IN
  /\ workflow_history' = Append(workflow_history, wid)
  /\ loop_ready' = rest
  /\ IF wid \in active_workflows
     THEN /\ active_workflows' = active_workflows \ {wid}
          /\ workflows' = [workflows EXCEPT ![wid] = done]
          /\ calls' = [calls EXCEPT ![c] = Returned(wid, Outcome(done))]
     ELSE /\ active_workflows' = active_workflows
          /\ workflows' = [workflows EXCEPT ![wid] = workflow_error(done)]
          /\ calls' = [calls EXCEPT ![c] = Returned(wid, ExecutionFailedError)]

\* A variant that leaves the loop only when no task is Pending: with nothing
\* ready and tasks still Pending it yields to the event loop and looks again.
run_loop_polling(c, wid, w, rest) ==
  LET ready_tasks == get_ready_tasks(w)
      batch == tasks_to_execute(ready_tasks) IN
  IF ready_tasks = << >> /\ pending_tasks(w) = {}
  THEN finish_workflow(c, wid, no_ready_tasks(w), rest)
  ELSE /\ workflows' = [workflows EXCEPT ![wid] = w]
       /\ calls' = [calls EXCEPT ![c] =
                      [workflow_id |-> wid, pc |-> "waiting",
                       batch |-> NewJobs(batch), result |-> None]]
       /\ loop_ready' =
            IF ready_tasks = << >>
            THEN Append(rest, Callback("resume", c, 0, NoOutcome))
            ELSE rest \o StartCallbacks(c, batch)
       /\ UNCHANGED <<active_workflows, workflow_history>>

\* `for dep_id in task.dependencies` (line 98) raises TypeError on a Pending
\* task whose dependencies are not iterable.
get_ready_tasks_raises(w) ==
  \E i \in 1..Len(w.tasks) :
    w.tasks[i].status = PENDING /\ w.tasks[i].dependencies = NoDependencyList

\* An exception raised in the loop reaches the handler of execute_workflow
\* (lines 260-264), which returns the error; the workflow stays where it is.
execution_failed(c, wid, w, rest) ==
  /\ workflows' = [workflows EXCEPT ![wid] = workflow_error(w)]
  /\ calls' = [calls EXCEPT ![c] = Returned(wid, ExecutionFailedError)]
  /\ loop_ready' = rest
  /\ UNCHANGED <<active_workflows, workflow_history>>

\* One pass of `while True` (lines 192-219) and, when the loop is left,
\* the rest of execute_workflow.  w is the workflow as the pass finds it,
\* rest the loop's queue behind the callback that is running.
run_loop(c, wid, w, rest) ==
  LET ready_tasks == get_ready_tasks(w)
      batch == tasks_to_execute(ready_tasks) IN
  IF get_ready_tasks_raises(w)
  THEN execution_failed(c, wid, w, rest)
  ELSE IF ready_tasks = << >>
  THEN finish_workflow(c, wid, no_ready_tasks(w), rest)
  ELSE /\ workflows' = [workflows EXCEPT ![wid] = w]
       /\ calls' = [calls EXCEPT ![c] =
                      [workflow_id |-> wid, pc |-> "waiting",
                       batch |-> NewJobs(batch), result |-> None]]
       /\ loop_ready' = rest \o StartCallbacks(c, batch)
       /\ UNCHANGED <<active_workflows, workflow_history>>

\* A variant that also finds archived workflows.
lookup_anywhere(wid) ==
  wid \in active_workflows \/ \E h \in 1..Len(workflow_history) : workflow_history[h] = wid

\* self.active_workflows.get(workflow_id)
lookup_active(wid) == wid \in active_workflows

\* A caller awaits engine.execute_workflow(wid), or hands it to the loop as
\* a task: the coroutine's first step is queued.
call_execute(wid) ==
  LET c == Len(calls) + 1 IN
  /\ calls' = Append(calls, [workflow_id |-> wid, pc |-> "called",
                             batch |-> << >>, result |-> None])
  /\ loop_ready' = Append(loop_ready, Callback("call", c, 0, NoOutcome))
  /\ UNCHANGED <<agents, workflows, active_workflows, workflow_history,
                 cancel_result>>

\* execute_workflow from its first line to the first await (lines 181-219).
execute_workflow(c) ==
  LET wid == calls[c].workflow_id IN
  /\ RunsNext(Callback("call", c, 0, NoOutcome))
  /\ IF ~lookup_active(wid)
     THEN /\ calls' = [calls EXCEPT ![c] = Returned(wid, NotFoundError)]
          /\ loop_ready' = Tail(loop_ready)
          /\ UNCHANGED <<workflows, active_workflows, workflow_history>>
     ELSE run_loop(c, wid,
                   [workflows[wid] EXCEPT !.status = RUNNING,
                                          !.start_time = TRUE],
                   Tail(loop_ready))
  /\ UNCHANGED <<agents, cancel_result>>

AllDone(batch) == \A k \in 1..Len(batch) : batch[k].pc = "done"
SomeRaised(batch) == \E k \in 1..Len(batch) : batch[k].raised

\* gather's done-callback is scheduled whenever a coroutine of the batch
\* finishes; the one that finds the batch finished, or finds an exception,
\* resolves gather's future.
DoneCallbacks(c, batch) ==
  IF AllDone(batch) \/ SomeRaised(batch)
  THEN <<Callback("gathered", c, 0, NoOutcome)>> ELSE << >>

\* Resolving gather's future schedules the wake-up of execute_workflow.
gather_done(c) ==
  /\ RunsNext(Callback("gathered", c, 0, NoOutcome))
  /\ loop_ready' = Append(Tail(loop_ready), Callback("resume", c, 0, NoOutcome))
  /\ UNCHANGED <<agents, workflows, active_workflows, workflow_history, calls,
                 cancel_result>>

\* execute_workflow from the return of `await asyncio.gather` on: gather
\* returns the results, or raises the first exception of its coroutines.
resume_workflow(c) ==
  LET wid == calls[c].workflow_id
      w == workflows[wid] IN
  /\ RunsNext(Callback("resume", c, 0, NoOutcome))
  /\ IF calls[c].pc /= "waiting"
     THEN /\ loop_ready' = Tail(loop_ready)
          /\ UNCHANGED <<workflows, active_workflows, workflow_history, calls>>
     ELSE IF SomeRaised(calls[c].batch)
     THEN execution_failed(c, wid, w, Tail(loop_ready))
     ELSE run_loop(c, wid, w, Tail(loop_ready))
  /\ UNCHANGED <<agents, cancel_result>>

\* ------------------------------------------------------------ _execute_task
\* A variant of _execute_task without its handler: exceptions escape it.
absorbs_nothing(exc) == FALSE

\* `except Exception` of _execute_task (lines 306-310) catches whatever the
\* body raises: the ValueError of a missing agent, the executor's exception.
absorbs(exc) == TRUE

\* Lines 306-310.
task_failed(w, i, exc) ==
  [w EXCEPT !.tasks[i].status = FAILED, !.tasks[i].error = Some(exc),
            !.tasks[i].end_time = TRUE]

\* str(ValueError(f"Agent {task.agent_name} not found")) (line 277)
AgentNotFound(name) == <<"Agent", name, "not found">>

\* result.get("success"): None when the key is missing.
succeeded(result) == "success" \in DOMAIN result /\ result["success"]

\* Lines 297-299: `context_updates.items()` raises AttributeError when the
\* directive is not a dict; it is reached when result.get("success") holds.
directive_raises(context, result) ==
  /\ succeeded(result)
  /\ "update_global_context" \in DOMAIN context
  /\ context["update_global_context"].type /= "dict"

\* str(AttributeError("'list' object has no attribute 'items'"))
NoAttribute(type, attribute) == <<type, "object has no attribute", attribute>>

\* A variant that writes every key of the directive, with "missing" for a
\* field the result lacks.
update_global_context_eager(global_context, context, result) ==
  IF succeeded(result) /\ "update_global_context" \in DOMAIN context
     /\ ~directive_raises(context, result)
  THEN LET context_updates == context["update_global_context"].items
       IN [key \in DOMAIN global_context \cup DOMAIN context_updates |->
             IF key \in DOMAIN context_updates
             THEN IF context_updates[key] \in DOMAIN result
                  THEN result[context_updates[key]] ELSE "missing"
             ELSE global_context[key]]
  ELSE global_context

\* A variant that leaves alone a key global_context already has.
update_global_context_keeping(global_context, context, result) ==
  IF succeeded(result) /\ "update_global_context" \in DOMAIN context
     /\ ~directive_raises(context, result)
  THEN LET context_updates == context["update_global_context"].items
           written == {key \in DOMAIN context_updates :
                         /\ context_updates[key] \in DOMAIN result
                         /\ key \notin DOMAIN global_context}
       IN [key \in DOMAIN global_context \cup written |->
             IF key \in written THEN result[context_updates[key]]
             ELSE global_context[key]]
  ELSE global_context

\* Lines 297-302: copy result fields into workflow.global_context.  Nothing
\* is copied when context_updates.items() raises.
update_global_context(global_context, context, result) ==
  IF succeeded(result) /\ "update_global_context" \in DOMAIN context
     /\ ~directive_raises(context, result)
  THEN LET context_updates == context["update_global_context"].items
           written == {key \in DOMAIN context_updates :
                         context_updates[key] \in DOMAIN result}
       IN [key \in DOMAIN global_context \cup written |->
             IF key \in written THEN result[context_updates[key]]
             ELSE global_context[key]]
  ELSE global_context

\* Lines 292-302: what _execute_task does with the value process_task returns.
task_returned(w, i, result) ==
  [w EXCEPT !.tasks[i].result = Some(result),
            !.tasks[i].status = COMPLETED,
            !.tasks[i].end_time = TRUE,
            !.global_context =
               update_global_context(w.global_context, w.tasks[i].context,
                                     result)]

\* Lines 269-270.
task_started(w, i) ==
  [w EXCEPT !.tasks[i].status = RUNNING, !.tasks[i].start_time = TRUE]

\* How the try body of _execute_task ends, given what process_task gave: as
\* process_task did, or with the exception that handling the result raises.
body_outcome(task, outcome) ==
  IF outcome.kind = "return" /\ directive_raises(task.context, outcome.value)
  THEN Raises(NoAttribute(task.context["update_global_context"].type, "items"))
  ELSE outcome

\* A variant in which a coroutine that finds its workflow cancelled gives up
\* and writes nothing.
task_ended_unless_cancelled(w, i, outcome) ==
  LET stored == IF outcome.kind = "return"
                THEN task_returned(w, i, outcome.value) ELSE w
      ended == body_outcome(w.tasks[i], outcome) IN
  IF w.status = CANCELLED THEN w
  ELSE IF ended.kind = "raise" /\ absorbs(ended.value)
  THEN task_failed(stored, i, ended.value) ELSE stored

\* _execute_task from what `agent.process_task` gave (a value returned or an
\* exception raised) to its end (lines 290-310): the workflow it leaves.
task_ended(w, i, outcome) ==
  LET stored == IF outcome.kind = "return"
                THEN task_returned(w, i, outcome.value) ELSE w
      ended == body_outcome(w.tasks[i], outcome) IN
  IF ended.kind = "raise" /\ absorbs(ended.value)
  THEN task_failed(stored, i, ended.value) ELSE stored

\* The job of a coroutine of the batch that has ended, with or without an
\* exception escaping it.
JobEnded(job, outcome) ==
  [job EXCEPT !.pc = "done",
              !.raised = outcome.kind = "raise" /\ ~absorbs(outcome.value)]

\* The coroutine k of call c, whose job is `job`, ends, leaving workflow w:
\* its task is done, and gather's done-callback is queued behind rest.
end_job(c, k, wid, w, job, outcome, rest) ==
  LET batch == [calls[c].batch EXCEPT ![k] = JobEnded(job, outcome)] IN
  /\ workflows' = [workflows EXCEPT ![wid] = w]
  /\ calls' = [calls EXCEPT ![c].batch = batch]
  /\ loop_ready' = rest \o DoneCallbacks(c, batch)

\* dict.update: the entries of `over` replace and extend those of `under`.
dict_update(under, over) ==
  [key \in DOMAIN under \cup DOMAIN over |->
     IF key \in DOMAIN over THEN over[key] ELSE under[key]]

\* A variant of the overlay in which the task's own entries win.
own_context_wins(under, over) ==
  [key \in DOMAIN under \cup DOMAIN over |->
     IF key \in DOMAIN under THEN under[key] ELSE over[key]]

\* full_context.update(workflow.global_context) on the copy of task.context
\* (lines 280-281).
overlay_global_context(context, global_context) ==
  dict_update(context, global_context)

\* `dep_task and dep_task.result` (line 286): the dependency exists and its
\* result is neither None nor an empty dict.
has_result(w, dep_id) ==
  /\ get_task(w, dep_id) /= 0
  /\ w.tasks[get_task(w, dep_id)].result /= None
  /\ DOMAIN w.tasks[get_task(w, dep_id)].result[1] /= {}

\* f"dependency_{dep_id}"
dependency_key(dep_id) == "dependency_" \o dep_id

\* Lines 279-287: the context _execute_task hands to process_task.
full_context(w, task) ==
  LET base == overlay_global_context(task.context, w.global_context)
      injected == {dep_id \in task.dependencies : has_result(w, dep_id)}
      keys == {dependency_key(dep_id) : dep_id \in injected} IN
  [key \in DOMAIN base \cup keys |->
     IF key \in keys
     THEN LET dep_id == CHOOSE d \in injected : dependency_key(d) = key
          IN w.tasks[get_task(w, dep_id)].result[1]
     ELSE base[key]]

\* _execute_task from its first line (lines 268-290).  The agent is missing
\* and the ValueError ends the coroutine; or process_task is awaited and
\* suspends; or process_task comes back at once, without suspending.
start_task(c, k, outcome) ==
  LET wid == calls[c].workflow_id
      i == calls[c].batch[k].task
      w == task_started(workflows[wid], i)
      agent == get_agent(w.tasks[i].agent_name)
      not_found == Raises(AgentNotFound(w.tasks[i].agent_name))
      invoked == [calls[c].batch[k] EXCEPT
                    !.pc = "awaiting", !.agent = agent,
                    !.context = full_context(w, w.tasks[i])] IN
  /\ RunsNext(Callback("start", c, k, NoOutcome))
  /\ IF agent = 0
     THEN /\ outcome = NoOutcome
          /\ end_job(c, k, wid, task_ended(w, i, not_found),
                     calls[c].batch[k], not_found, Tail(loop_ready))
     ELSE IF outcome = NoOutcome
     THEN /\ workflows' = [workflows EXCEPT ![wid] = w]
          /\ calls' = [calls EXCEPT ![c].batch[k] = invoked]
          /\ loop_ready' = Tail(loop_ready)
     ELSE /\ outcome \in AllAgents[agent].outcomes
          /\ end_job(c, k, wid, task_ended(w, i, outcome),
                     invoked, body_outcome(w.tasks[i], outcome),
                     Tail(loop_ready))
  /\ UNCHANGED <<agents, active_workflows, workflow_history, cancel_result>>

\* The executor finishes its work: the future process_task awaits is
\* resolved, which queues the wake-up of _execute_task.
process_task_done(c, k, outcome) ==
  /\ calls[c].batch[k].pc = "awaiting"
  /\ outcome \in AllAgents[calls[c].batch[k].agent].outcomes
  /\ calls' = [calls EXCEPT ![c].batch[k].pc = "resolved"]
  /\ loop_ready' = Append(loop_ready, Callback("wake", c, k, outcome))
  /\ UNCHANGED <<agents, workflows, active_workflows, workflow_history,
                 cancel_result>>

\* _execute_task from the end of `await agent.process_task(...)` on.
finish_task(c, k, outcome) ==
  LET wid == calls[c].workflow_id
      i == calls[c].batch[k].task IN
  /\ RunsNext(Callback("wake", c, k, outcome))
  /\ end_job(c, k, wid, task_ended(workflows[wid], i, outcome),
             calls[c].batch[k], body_outcome(workflows[wid].tasks[i], outcome),
             Tail(loop_ready))
  /\ UNCHANGED <<agents, active_workflows, workflow_history, cancel_result>>

\* ---------------------------------------------------------- cancel_workflow
\* A variant that cancels any workflow ever created, archived or not.
cancel_workflow_archived(wid) ==
  IF wid \notin 1..Len(workflows)
  THEN /\ cancel_result' = (wid :> FALSE) @@ cancel_result
       /\ UNCHANGED <<agents, workflows, active_workflows, workflow_history,
                      calls, loop_ready>>
  ELSE /\ workflows' = [workflows EXCEPT ![wid].status = CANCELLED,
                                         ![wid].end_time = TRUE]
       /\ workflow_history' = Append(workflow_history, wid)
       /\ active_workflows' = active_workflows \ {wid}
       /\ cancel_result' = (wid :> TRUE) @@ cancel_result
       /\ UNCHANGED <<agents, calls, loop_ready>>

\* A variant that also marks the tasks not yet run as skipped.
cancel_workflow_skipping(wid) ==
  IF ~lookup_active(wid)
  THEN /\ cancel_result' = (wid :> FALSE) @@ cancel_result
       /\ UNCHANGED <<agents, workflows, active_workflows, workflow_history,
                      calls, loop_ready>>
  ELSE /\ workflows' =
            [workflows EXCEPT
               ![wid].status = CANCELLED,
               ![wid].end_time = TRUE,
               ![wid].tasks =
                  [i \in 1..Len(@) |->
                     IF @[i].status = PENDING
                     THEN [@[i] EXCEPT !.status = SKIPPED] ELSE @[i]]]
       /\ workflow_history' = Append(workflow_history, wid)
       /\ active_workflows' = active_workflows \ {wid}
       /\ cancel_result' = (wid :> TRUE) @@ cancel_result
       /\ UNCHANGED <<agents, calls, loop_ready>>

\* A variant that cancels every active workflow along with the one named.
cancel_workflow_all(wid) ==
  IF ~lookup_active(wid)
  THEN /\ cancel_result' = (wid :> FALSE) @@ cancel_result
       /\ UNCHANGED <<agents, workflows, active_workflows, workflow_history,
                      calls, loop_ready>>
  ELSE /\ workflows' =
            [other \in 1..Len(workflows) |->
               IF other \in active_workflows
               THEN [workflows[other] EXCEPT !.status = CANCELLED,
                                             !.end_time = TRUE]
               ELSE workflows[other]]
       /\ workflow_history' = Append(workflow_history, wid)
       /\ active_workflows' = active_workflows \ {wid}
       /\ cancel_result' = (wid :> TRUE) @@ cancel_result
       /\ UNCHANGED <<agents, calls, loop_ready>>

\* Lines 348-362.
cancel_workflow(wid) ==
  IF ~lookup_active(wid)
  THEN /\ cancel_result' = (wid :> FALSE) @@ cancel_result
       /\ UNCHANGED <<agents, workflows, active_workflows, workflow_history,
                      calls, loop_ready>>
  ELSE /\ workflows' = [workflows EXCEPT ![wid].status = CANCELLED,
                                         ![wid].end_time = TRUE]
       /\ workflow_history' = Append(workflow_history, wid)
       /\ active_workflows' = active_workflows \ {wid}
       /\ cancel_result' = (wid :> TRUE) @@ cancel_result
       /\ UNCHANGED <<agents, calls, loop_ready>>

\* ------------------------------------------------------ get_workflow_status
\* A variant that looks among the active workflows only.
lookup_active_only(wid) == wid \in active_workflows

\* Lines 314-323: the workflow is looked up among the active ones, then in
\* the history.
lookup_any(wid) == lookup_active(wid) \/ Archived(wid) >= 1

\* A variant of the dict that counts as completed the tasks that have a
\* result.
StatusReport_by_result(w) ==
  [id |-> w.id,
   name |-> w.name,
   status |-> w.status,
   created_at |-> w.created_at,
   start_time |-> w.start_time,
   end_time |-> w.end_time,
   duration |-> w.start_time /\ w.end_time,
   total_tasks |-> Len(w.tasks),
   completed_tasks |->
     Cardinality({i \in 1..Len(w.tasks) : w.tasks[i].result /= None}),
   failed_tasks |-> Cardinality(get_failed_tasks(w)),
   task_details |-> [i \in 1..Len(w.tasks) |->
                       [id |-> w.tasks[i].id, name |-> w.tasks[i].name,
                        agent |-> w.tasks[i].agent_name,
                        status |-> w.tasks[i].status,
                        duration |-> w.tasks[i].start_time /\ w.tasks[i].end_time]]]

\* Lines 325-346: the dict get_workflow_status returns for workflow w.
StatusReport(w) ==
  [id |-> w.id,
   name |-> w.name,
   status |-> w.status,
   created_at |-> w.created_at,
   start_time |-> w.start_time,
   end_time |-> w.end_time,
   duration |-> w.start_time /\ w.end_time,
   total_tasks |-> Len(w.tasks),
   completed_tasks |-> Cardinality(get_completed_tasks(w)),
   failed_tasks |-> Cardinality(get_failed_tasks(w)),
   task_details |-> [i \in 1..Len(w.tasks) |->
                       [id |-> w.tasks[i].id, name |-> w.tasks[i].name,
                        agent |-> w.tasks[i].agent_name,
                        status |-> w.tasks[i].status,
                        duration |-> w.tasks[i].start_time /\ w.tasks[i].end_time]]]

\* What get_workflow_status(wid) returns: None for an id it does not find.
status_of(wid) ==
  IF lookup_any(wid) THEN Some(StatusReport(workflows[wid])) ELSE None

\* The call just made was get_workflow_status(wid).
JustAsked(wid) == status_result /= None /\ status_result[1].workflow_id = wid

\* A variant that stamps the end time on the workflow it reports.
get_workflow_status_stamping(wid) ==
  /\ status_result' = Some([workflow_id |-> wid, returned |-> status_of(wid),
                            again |-> JustAsked(wid)])
  /\ workflows' = IF lookup_any(wid)
                  THEN [workflows EXCEPT ![wid].end_time = TRUE] ELSE workflows
  /\ UNCHANGED <<agents, active_workflows, workflow_history, calls,
                 loop_ready, cancel_result>>

\* Lines 312-346.  `again` tells that the call before this one was
\* get_workflow_status on the same id.
get_workflow_status(wid) ==
  /\ status_result' = Some([workflow_id |-> wid, returned |-> status_of(wid),
                            again |-> JustAsked(wid)])
  /\ UNCHANGED <<agents, workflows, active_workflows, workflow_history, calls,
                 loop_ready, cancel_result>>

\* ------------------------------------------------------------------- Next
AllOutcomes == UNION {AllAgents[i].outcomes : i \in 1..Len(AllAgents)}

\* The steps of the program for callers that create at most max_workflows
\* workflows, from task_lists, and call execute_workflow at most max_calls
\* times.
NextFor(task_lists, max_workflows, max_calls) ==
  \/ /\ status_result' = None
     /\ \E i \in 1..Len(AgentPool) : register_agent(i)
  \/ /\ status_result' = None
     /\ Len(workflows) < max_workflows
     /\ \E defs \in task_lists : create_workflow(defs)
  \/ /\ status_result' = None
     /\ Len(calls) < max_calls
     /\ \E wid \in WorkflowIds : call_execute(wid)
  \/ /\ status_result' = None
     /\ \E c \in 1..Len(calls) : execute_workflow(c)
  \/ /\ status_result' = None
     /\ \E c \in 1..Len(calls) : \E k \in 1..Len(calls[c].batch) :
          \E outcome \in AllOutcomes \cup {NoOutcome} : start_task(c, k, outcome)
  \/ /\ status_result' = None
     /\ \E c \in 1..Len(calls) : \E k \in 1..Len(calls[c].batch) :
          \E outcome \in AllOutcomes : process_task_done(c, k, outcome)
  \/ /\ status_result' = None
     /\ \E c \in 1..Len(calls) : \E k \in 1..Len(calls[c].batch) :
          \E outcome \in AllOutcomes : finish_task(c, k, outcome)
  \/ /\ status_result' = None
     /\ \E c \in 1..Len(calls) : gather_done(c)
  \/ /\ status_result' = None
     /\ \E c \in 1..Len(calls) : resume_workflow(c)
  \/ /\ status_result' = None
     /\ \E wid \in WorkflowIds : cancel_workflow(wid)

Next == NextFor(TaskLists, MaxWorkflows, MaxCalls)

Spec == Init /\ [][Next]_vars

\* One wide workflow: more independent tasks than a batch may hold.
NextWide == NextFor({WideTasksDef}, 1, MaxWideCalls)

SpecWide == Init /\ [][NextWide]_vars

\* The same callers, who also ask for the status of workflows.
NextStatus ==
  \/ NextFor(TaskLists, MaxWorkflows, MaxCalls)
  \/ \E wid \in WorkflowIds : get_workflow_status(wid)

SpecStatus == Init /\ [][NextStatus]_vars

\* Callers who register every instance there is, two of them under one name.
NextRegistry ==
  \/ /\ status_result' = None
     /\ \E i \in 1..Len(AllAgents) : register_agent(i)
  \/ NextFor({ChainTasks, PairTasks}, 1, 1)

SpecRegistry == Init /\ [][NextRegistry]_vars

\* The event loop runs the callback at the head of its queue.
RunsCallback ==
  /\ status_result' = None
  /\ \E c \in 1..Len(calls) :
       \/ execute_workflow(c)
       \/ gather_done(c)
       \/ resume_workflow(c)
       \/ \E k \in 1..Len(calls[c].batch) :
            \E outcome \in AllOutcomes \cup {NoOutcome} :
              start_task(c, k, outcome) \/ finish_task(c, k, outcome)

\* The executor call of job k of call c returns or raises.
ExecutorReturns(c, k) ==
  /\ status_result' = None
  /\ c <= Len(calls)
  /\ k <= Len(calls[c].batch)
  /\ \E outcome \in AllOutcomes : process_task_done(c, k, outcome)

\* The engine on a loop that keeps running its callbacks, with executors
\* whose calls all come back.
SpecLive ==
  /\ Init /\ [][Next]_vars
  /\ WF_vars(RunsCallback)
  /\ \A c \in 1..MaxCalls : \A k \in 1..max_concurrent_tasks :
       WF_vars(ExecutorReturns(c, k))

\* Callers whose workflows hold two independent tasks that write the same
\* key of global_context.
NextRace == NextFor({RaceTasks}, RacingWorkflows, RacingCalls)

SpecRace == Init /\ [][NextRace]_vars

\* Callers some of whose task definitions carry no list of dependencies.
NextMalformed ==
  NextFor({NoneDependenciesTasks, PairTasks}, MaxWorkflows, MaxCalls)

SpecMalformed == Init /\ [][NextMalformed]_vars

\* Callers whose task definitions lack ids, or repeat one.
CreateLists == {AnonymousTasks, DuplicateIdTasks}

NextCreate == NextFor(CreateLists, CreatedWorkflows, CreatedCalls)

SpecCreate == Init /\ [][NextCreate]_vars

\* Callers who create several workflows and execute them side by side.
NextConcurrent ==
  NextFor({ChainTasks}, ConcurrentWorkflows, ConcurrentCalls)

SpecConcurrent == Init /\ [][NextConcurrent]_vars

\* ------------------------------------------------------------- properties
AllCompleted(w) == \A i \in 1..Len(w.tasks) : w.tasks[i].status = COMPLETED

\* Call c ran the workflow and has returned: its id was found active.
Ran(c) == calls[c].pc = "returned" /\ calls[c].result /= Some(NotFoundError)

\* Some execute_workflow call on workflow wid ran and has returned.
Executed(wid) == \E c \in 1..Len(calls) : Ran(c) /\ calls[c].workflow_id = wid

\* Task j depends on task i, directly or through at most n other tasks.
RECURSIVE DependsWithin(_, _, _, _)
DependsWithin(w, j, i, n) ==
  /\ n > 0
  /\ \E dep_id \in w.tasks[j].dependencies :
       LET d == get_task(w, dep_id) IN
       d /= 0 /\ (d = i \/ DependsWithin(w, d, i, n - 1))

DependsOn(w, j, i) == DependsWithin(w, j, i, Len(w.tasks))

\* Task i of w names a dependency that matches no task of w.
Dangling(w, i) == \E dep_id \in w.tasks[i].dependencies : get_task(w, dep_id) = 0

\* C1: a workflow's status is Completed exactly when all its tasks are
\* Completed: no workflow is Completed while one of its tasks is not, and a
\* workflow whose tasks have all reached Completed under an execute that has
\* returned is Completed.
C1_CompletedIffAllTasksCompleted ==
  \A wid \in 1..Len(workflows) :
    LET w == workflows[wid] IN
    /\ w.status = COMPLETED => AllCompleted(w)
    /\ (Executed(wid) /\ AllCompleted(w)) => w.status = COMPLETED

\* C2: whenever a task is Running, each of its dependency ids resolves to a
\* task of the same workflow that is Completed.
C2_RunningTaskHasCompletedDependencies ==
  \A wid \in 1..Len(workflows) :
    LET w == workflows[wid] IN
    \A i \in 1..Len(w.tasks) :
      w.tasks[i].status = RUNNING => dependencies_completed(w, w.tasks[i])

\* C3: no batch of an execute_workflow call holds more than
\* max_concurrent_tasks tasks, however many tasks are ready.
C3_BatchWithinMaxConcurrent ==
  \A c \in 1..Len(calls) : Len(calls[c].batch) <= max_concurrent_tasks

\* A full batch is in flight while a further ready task waits its turn.
C3_FullBatchWitness ==
  \E c \in 1..Len(calls) :
    /\ calls[c].pc = "waiting"
    /\ Len(calls[c].batch) = max_concurrent_tasks
    /\ \A k \in 1..Len(calls[c].batch) : calls[c].batch[k].pc = "awaiting"
    /\ Len(get_ready_tasks(workflows[calls[c].workflow_id])) >= 1

\* C4: a task with a dependency id that matches no task of its workflow
\* stays Pending, and its workflow is never Completed.
C4_DanglingDependencyStaysPending ==
  \A wid \in 1..Len(workflows) :
    LET w == workflows[wid] IN
    \A i \in 1..Len(w.tasks) :
      Dangling(w, i) => w.tasks[i].status = PENDING /\ w.status /= COMPLETED

\* An execute has run a workflow with such a task to its end: the task it
\* depends on besides is Completed, and the task is still Pending.
C4_DanglingWitness ==
  \E wid \in 1..Len(workflows) :
    LET w == workflows[wid] IN
    /\ Executed(wid)
    /\ \E i \in 1..Len(w.tasks) :
         /\ Dangling(w, i)
         /\ w.tasks[i].status = PENDING
         /\ \E j \in 1..Len(w.tasks) : DependsOn(w, i, j) /\ w.tasks[j].status = COMPLETED

\* C5: a task whose executor raised is Failed with the exception's message as
\* its error; every task that depends on it, directly or not, is Pending; and
\* once an execute of the workflow has returned the workflow is Failed.
C5_ExecutorFailureFailsTaskAndWorkflow ==
  \A wid \in 1..Len(workflows) :
    LET w == workflows[wid] IN
    \A i \in 1..Len(w.tasks) :
      w.tasks[i].error = Some(<<"boom">>) =>
        /\ w.tasks[i].status = FAILED
        /\ \A j \in 1..Len(w.tasks) : DependsOn(w, j, i) => w.tasks[j].status = PENDING
        /\ Executed(wid) => w.status = FAILED

\* C6: a task whose executor returned a result with a false success flag is
\* Failed, not Completed.
C6_SoftFailureIsFailed ==
  \A wid \in 1..Len(workflows) :
    LET w == workflows[wid] IN
    \A i \in 1..Len(w.tasks) :
      (w.tasks[i].result /= None /\ ~succeeded(w.tasks[i].result[1]))
        => w.tasks[i].status = FAILED

\* C7: a task whose agent_name was not found in the registry has no result
\* (its executor was not invoked), is Failed with the "agent not found"
\* message, and every execute of its workflow that has returned gave a
\* normal outcome that counts the task as failed, not a top-level error.
C7_MissingAgentFailsTaskOnly ==
  \A wid \in 1..Len(workflows) :
    LET w == workflows[wid] IN
    \A i \in 1..Len(w.tasks) :
      w.tasks[i].error = Some(AgentNotFound(w.tasks[i].agent_name)) =>
        /\ w.tasks[i].status = FAILED
        /\ w.tasks[i].result = None
        /\ \A c \in 1..Len(calls) :
             (Ran(c) /\ calls[c].workflow_id = wid) =>
               /\ "error" \notin DOMAIN calls[c].result[1]
               /\ calls[c].result[1].results[i].status = FAILED
               /\ calls[c].result[1].failed_tasks >= 1

\* C8: failure is data.  No exception escapes a task's coroutine; what an
\* execute_workflow call returns is an outcome or a top-level error; and a
\* top-level error comes from the control loop only: the id was not found,
\* or the workflow had been archived by someone else when this call came to
\* archive it (its `del` then fails, after its own append to the history).
C8_FailureIsData ==
  \A c \in 1..Len(calls) :
    /\ \A k \in 1..Len(calls[c].batch) : ~calls[c].batch[k].raised
    /\ calls[c].pc = "returned" =>
         LET r == calls[c].result[1] IN
         \/ r = NotFoundError
         \/ r = ExecutionFailedError /\ Archived(calls[c].workflow_id) >= 2
         \/ /\ "error" \notin DOMAIN r
            /\ r.workflow_id = calls[c].workflow_id
            /\ Archived(calls[c].workflow_id) >= 1

\* An execute has returned a normal outcome that reports a task whose
\* executor raised.
C8_FailedTaskInOutcomeWitness ==
  \E c \in 1..Len(calls) :
    /\ Ran(c)
    /\ "error" \notin DOMAIN calls[c].result[1]
    /\ \E i \in 1..calls[c].result[1].total_tasks :
         /\ calls[c].result[1].results[i].status = FAILED
         /\ calls[c].result[1].results[i].error = Some(<<"boom">>)

\* C9: execute_workflow on an id that is not in the active set returns the
\* not-found error and changes nothing: no workflow, not the active set, not
\* the history.
C9_ExecuteUnknownIdChangesNothing ==
  [][\A c \in 1..Len(calls) :
       (execute_workflow(c) /\ calls[c].workflow_id \notin active_workflows) =>
         /\ calls'[c].pc = "returned"
         /\ calls'[c].result = Some(NotFoundError)
         /\ UNCHANGED <<workflows, active_workflows, workflow_history>>]_vars

\* Not-found was returned for an id that is in the history, and for the id
\* that no workflow ever had.
C9_NotFoundWitness ==
  /\ \E c \in 1..Len(calls) :
       /\ calls[c].result = Some(NotFoundError)
       /\ Archived(calls[c].workflow_id) >= 1
  /\ \E c \in 1..Len(calls) :
       /\ calls[c].result = Some(NotFoundError)
       /\ calls[c].workflow_id = 0

\* C10: cancel_workflow on an id that is not in the active set returns False
\* and changes no workflow, not the active set and not the history, also when
\* the id is in the history.
C10_CancelInactiveChangesNothing ==
  [][\A wid \in WorkflowIds :
       (cancel_workflow(wid) /\ wid \notin active_workflows) =>
         /\ cancel_result'[wid] = FALSE
         /\ UNCHANGED <<workflows, active_workflows, workflow_history, calls>>]_vars

\* cancel_workflow returned False for a workflow that is in the history.
C10_CancelArchivedWitness ==
  \E wid \in DOMAIN cancel_result :
    /\ ~cancel_result[wid]
    /\ Archived(wid) >= 1
    /\ wid \notin active_workflows

\* C11: cancel_workflow on an id in the active set returns True, sets the
\* workflow's status to Cancelled, removes the id from the active set and
\* appends the workflow to the history, and changes nothing else: no task,
\* no entry of global_context, no other workflow.
C11_CancelActiveChangesOnlyBookkeeping ==
  [][\A wid \in WorkflowIds :
       (cancel_workflow(wid) /\ wid \in active_workflows) =>
         /\ cancel_result'[wid] = TRUE
         /\ workflows'[wid].status = CANCELLED
         /\ active_workflows' = active_workflows \ {wid}
         /\ workflow_history' = Append(workflow_history, wid)
         /\ workflows'[wid].tasks = workflows[wid].tasks
         /\ workflows'[wid].global_context = workflows[wid].global_context
         /\ \A other \in 1..Len(workflows) :
              other /= wid => workflows'[other] = workflows[other]
         /\ UNCHANGED <<agents, calls, loop_ready>>]_vars

\* A workflow was cancelled while one of its tasks was Running and another
\* still Pending: both are as they were.
C11_CancelledMidRunWitness ==
  \E wid \in DOMAIN cancel_result :
    /\ cancel_result[wid]
    /\ workflows[wid].status = CANCELLED
    /\ \E i \in 1..Len(workflows[wid].tasks) : workflows[wid].tasks[i].status = RUNNING
    /\ \E i \in 1..Len(workflows[wid].tasks) : workflows[wid].tasks[i].status = PENDING

\* C12: the history never holds the same workflow more than once, whatever
\* the interleaving of create, execute and cancel.
C12_ArchivedAtMostOnce ==
  \A wid \in 1..Len(workflows) : Archived(wid) <= 1

\* The statuses in the order of a workflow's life; the last three are final.
StatusRank(status) ==
  IF status = PENDING THEN 0 ELSE IF status = RUNNING THEN 1 ELSE 2

\* C13: a workflow's status only moves forward along Pending, Running,
\* {Completed, Failed, Cancelled}; once it is Completed, Failed or Cancelled
\* it never changes again.
C13_StatusMovesForwardAndTerminalIsFinal ==
  [][\A wid \in 1..Len(workflows) :
       workflows'[wid].status /= workflows[wid].status =>
         StatusRank(workflows'[wid].status) > StatusRank(workflows[wid].status)]_vars

\* Call c returns a normal outcome in this step.
ReturnsOutcome(c) ==
  /\ calls[c].pc /= "returned"
  /\ calls'[c].pc = "returned"
  /\ "error" \notin DOMAIN calls'[c].result[1]

\* C14: when execute_workflow returns an outcome (the workflow was then still
\* active, so not cancelled meanwhile), the workflow's status is Completed
\* if every task is Completed and Failed otherwise; the outcome reports that
\* status.
C14_OutcomeStatusFollowsTasks ==
  [][\A c \in 1..Len(calls) :
       ReturnsOutcome(c) =>
         LET w == workflows'[calls[c].workflow_id] IN
         /\ w.status = IF AllCompleted(w) THEN COMPLETED ELSE FAILED
         /\ get_failed_tasks(w) /= {} => w.status = FAILED
         /\ calls'[c].result[1].status = w.status]_vars

\* Outcomes were returned with a Failed task beside a Completed one.
C14_FailedOutcomeWitness ==
  \E c \in 1..Len(calls) :
    /\ Ran(c)
    /\ "error" \notin DOMAIN calls[c].result[1]
    /\ calls[c].result[1].status = FAILED
    /\ calls[c].result[1].failed_tasks >= 1
    /\ calls[c].result[1].completed_tasks >= 1

\* The structural deadlock: nothing is ready or in flight, Pending tasks
\* remain and no task is Failed.
Deadlocked(w) ==
  /\ get_ready_tasks(w) = << >>
  /\ pending_tasks(w) /= {}
  /\ get_failed_tasks(w) = {}
  /\ \A i \in 1..Len(w.tasks) : w.tasks[i].status /= RUNNING

\* C15 as stated: when execute_workflow returns from a structural deadlock,
\* the workflow's status is left Running.
C15_DeadlockLeavesRunning ==
  [][\A c \in 1..Len(calls) :
       (ReturnsOutcome(c) /\ Deadlocked(workflows'[calls[c].workflow_id])) =>
         workflows'[calls[c].workflow_id].status = RUNNING]_vars

\* C15 as amended: the loop leaves a structural deadlock without marking the
\* workflow, and the final-status step then marks it Failed: the outcome
\* execute_workflow returns reports "failed" with no failed task, and the
\* workflow is archived, no longer active.
C15_DeadlockEndsFailed ==
  [][\A c \in 1..Len(calls) :
       (ReturnsOutcome(c) /\ Deadlocked(workflows'[calls[c].workflow_id])) =>
         LET wid == calls[c].workflow_id IN
         /\ workflows'[wid].status = FAILED
         /\ calls'[c].result[1].status = FAILED
         /\ calls'[c].result[1].failed_tasks = 0
         /\ wid \notin active_workflows'
         /\ workflow_history' = Append(workflow_history, wid)]_vars

\* An execute_workflow call has returned from a structural deadlock.
C15_DeadlockWitness ==
  \E c \in 1..Len(calls) :
    /\ Ran(c)
    /\ "error" \notin DOMAIN calls[c].result[1]
    /\ calls[c].result[1].failed_tasks = 0
    /\ calls[c].result[1].completed_tasks < calls[c].result[1].total_tasks
    /\ Deadlocked(workflows[calls[c].workflow_id])

\* Every dependency id of w resolves, and no task depends on itself.
WellFormed(w) ==
  \A i \in 1..Len(w.tasks) : ~Dangling(w, i) /\ ~DependsOn(w, i, i)

\* No executor of w has failed: no task has an error, and every result that
\* is present reports success.
NoFailureSeen(w) ==
  \A i \in 1..Len(w.tasks) :
    /\ w.tasks[i].error = None
    /\ w.tasks[i].result /= None => succeeded(w.tasks[i].result[1])

\* C16: when execute_workflow has returned for a workflow whose dependencies
\* all resolve and are acyclic and whose executors all succeeded (and that
\* nobody cancelled), every task is Completed, the workflow is Completed and
\* the call returned an outcome whose completed_tasks equals total_tasks.
C16_SuccessfulRunCompletes ==
  \A c \in 1..Len(calls) :
    (/\ Ran(c)
     /\ cancel_result = << >>
     /\ WellFormed(workflows[calls[c].workflow_id])
     /\ NoFailureSeen(workflows[calls[c].workflow_id])) =>
      LET w == workflows[calls[c].workflow_id]
          r == calls[c].result[1] IN
      /\ AllCompleted(w)
      /\ w.status = COMPLETED
      /\ "error" \notin DOMAIN r
      /\ r.completed_tasks = r.total_tasks

\* The coroutine k of call c gets `outcome` back from process_task in this
\* step, and it is a returned result.
TaskReturns(c, k, outcome) ==
  /\ outcome.kind = "return"
  /\ start_task(c, k, outcome) \/ finish_task(c, k, outcome)

\* task.context["update_global_context"], empty when there is none.
Directive(task) ==
  IF /\ "update_global_context" \in DOMAIN task.context
     /\ task.context["update_global_context"].type = "dict"
  THEN task.context["update_global_context"].items ELSE EmptyDict

\* C17: when a task completes with a result, each entry global_key ->
\* result_field_name of its update_global_context whose field is a key of the
\* result leaves global_context[global_key] equal to that field's value.
C17_GlobalContextTakesResultFields ==
  [][\A c \in 1..Len(calls) : \A k \in 1..Len(calls[c].batch) :
       \A outcome \in AllOutcomes :
         TaskReturns(c, k, outcome) =>
           LET wid == calls[c].workflow_id
               task == workflows'[wid].tasks[calls[c].batch[k].task]
               global_context == workflows'[wid].global_context IN
           /\ task.status = COMPLETED
           /\ \A key \in DOMAIN Directive(task) :
                Directive(task)[key] \in DOMAIN outcome.value =>
                  /\ key \in DOMAIN global_context
                  /\ global_context[key] = outcome.value[Directive(task)[key]]]_vars

\* C18: when a task completes with a result, each entry of its
\* update_global_context whose field is not a key of the result is skipped:
\* global_context is as before for that key, the task's error is as before
\* and the task is Completed.
C18_AbsentFieldIsSkipped ==
  [][\A c \in 1..Len(calls) : \A k \in 1..Len(calls[c].batch) :
       \A outcome \in AllOutcomes :
         TaskReturns(c, k, outcome) =>
           LET wid == calls[c].workflow_id
               i == calls[c].batch[k].task
               task == workflows'[wid].tasks[i]
               before == workflows[wid].global_context
               after == workflows'[wid].global_context IN
           \A key \in DOMAIN Directive(task) :
             Directive(task)[key] \notin DOMAIN outcome.value =>
               /\ key \in DOMAIN after <=> key \in DOMAIN before
               /\ key \in DOMAIN before => after[key] = before[key]
               /\ task.error = workflows[wid].tasks[i].error
               /\ task.status = COMPLETED]_vars

\* A task completed with a successful result that has the field of one entry
\* and lacks the field of another: the first key was written, the second not.
C18_SkippedEntryWitness ==
  \E wid \in 1..Len(workflows) :
    LET w == workflows[wid] IN
    \E i \in 1..Len(w.tasks) :
      /\ w.tasks[i].status = COMPLETED
      /\ w.tasks[i].error = None
      /\ w.tasks[i].result = Some(ResultHello)
      /\ \E key \in DOMAIN Directive(w.tasks[i]) :
           Directive(w.tasks[i])[key] \notin DOMAIN ResultHello /\ key \notin DOMAIN w.global_context
      /\ \E key \in DOMAIN Directive(w.tasks[i]) :
           Directive(w.tasks[i])[key] \in DOMAIN ResultHello /\ key \in DOMAIN w.global_context

\* C19: the context _execute_task hands to process_task holds every entry of
\* global_context, every entry of the task's own context whose key
\* global_context lacks, and for each dependency that has a result the key
\* dependency_<id> with exactly that result, and nothing else; building it
\* (the step that ends at the await) changes neither the task's own context
\* nor global_context.
C19_ExecutorContext ==
  [][\A c \in 1..Len(calls) : \A k \in 1..Len(calls[c].batch) :
       \A outcome \in AllOutcomes \cup {NoOutcome} :
         LET wid == calls[c].workflow_id
             i == calls[c].batch[k].task
             w == workflows[wid]
             task == w.tasks[i]
             handed == calls'[c].batch[k].context
             with_result == {dep_id \in task.dependencies :
                               /\ get_task(w, dep_id) /= 0
                               /\ w.tasks[get_task(w, dep_id)].result /= None}
             dep_keys == {dependency_key(dep_id) : dep_id \in with_result} IN
         (start_task(c, k, outcome) /\ get_agent(task.agent_name) /= 0) =>
           /\ DOMAIN handed =
                DOMAIN task.context \cup DOMAIN w.global_context \cup dep_keys
           /\ \A key \in DOMAIN w.global_context \ dep_keys :
                handed[key] = w.global_context[key]
           /\ \A key \in DOMAIN task.context \ (DOMAIN w.global_context \cup dep_keys) :
                handed[key] = task.context[key]
           /\ \A dep_id \in with_result :
                handed[dependency_key(dep_id)] = w.tasks[get_task(w, dep_id)].result[1]
           /\ workflows'[wid].tasks[i].context = task.context
           /\ outcome = NoOutcome => workflows'[wid].global_context = w.global_context]_vars

\* An executor was handed a context in which global_context's "summary"
\* replaced the task's own, beside the result of the task it depends on.
C19_OverlaidContextWitness ==
  \E c \in 1..Len(calls) : \E k \in 1..Len(calls[c].batch) :
    LET job == calls[c].batch[k]
        w == workflows[calls[c].workflow_id] IN
    /\ job.pc = "awaiting"
    /\ "summary" \in DOMAIN w.tasks[job.task].context
    /\ w.tasks[job.task].context["summary"] = "draft"
    /\ "summary" \in DOMAIN job.context
    /\ job.context["summary"] = "hello"
    /\ dependency_key("t1") \in DOMAIN job.context
    /\ job.context[dependency_key("t1")] = ResultHello

\* C20: get_workflow_status changes no workflow, not the active set and not
\* the history (nor anything else of the engine), and a call that follows
\* at once on another call for the same id returns what that one returned.
C20_GetStatusReadOnlyIdempotent ==
  [][\A wid \in WorkflowIds :
       get_workflow_status(wid) =>
         /\ UNCHANGED <<agents, workflows, active_workflows, workflow_history,
                        calls, loop_ready, cancel_result>>
         /\ JustAsked(wid) =>
              status_result'[1].returned = status_result[1].returned]_vars

\* get_workflow_status was called twice in a row on a completed, archived
\* workflow, and reported it.
C20_AskedTwiceWitness ==
  /\ status_result /= None
  /\ status_result[1].again
  /\ status_result[1].returned /= None
  /\ status_result[1].returned[1].status = COMPLETED
  /\ status_result[1].returned[1].completed_tasks >= 2
  /\ Archived(status_result[1].workflow_id) >= 1

\* C21: get_workflow_status returns a snapshot for every id create_workflow
\* has returned, whether the workflow is active or archived, and None only
\* for an id no workflow ever had; the snapshot is of the workflow asked for.
C21_GetStatusFindsEveryCreatedWorkflow ==
  [][\A wid \in WorkflowIds :
       get_workflow_status(wid) =>
         LET returned == status_result'[1].returned IN
         /\ wid \in 1..Len(workflows) <=> returned /= None
         /\ returned /= None =>
              /\ returned[1].id = wid
              /\ returned[1].status = workflows[wid].status]_vars

\* A snapshot was returned for a workflow that was cancelled while running:
\* it is in the history, no longer active.
C21_ArchivedSnapshotWitness ==
  /\ status_result /= None
  /\ status_result[1].returned /= None
  /\ status_result[1].returned[1].status = CANCELLED
  /\ status_result[1].workflow_id \notin active_workflows
  /\ \E i \in 1..status_result[1].returned[1].total_tasks :
       status_result[1].returned[1].task_details[i].status = RUNNING

\* C22: the snapshot get_workflow_status returns has the fields of the
\* outcome execute_workflow returns (workflow_id, status, duration,
\* completed_tasks, total_tasks, failed_tasks, results), and its per-task
\* entries have those of the outcome's (task_id, task_name, status, result,
\* error).
C22_SnapshotHasOutcomeShape ==
  (status_result /= None /\ status_result[1].returned /= None) =>
    LET snapshot == status_result[1].returned[1]
        outcome == Outcome(workflows[status_result[1].workflow_id]) IN
    /\ DOMAIN snapshot = DOMAIN outcome
    /\ "results" \in DOMAIN snapshot =>
         \A i \in 1..Len(outcome.results) :
           DOMAIN snapshot.results[i] = DOMAIN outcome.results[i]

\* C23: a task's status changes only from Pending to Running, from Running
\* to Completed and from Running to Failed, and no task is ever Skipped.
\* (A coroutine that does not suspend makes two of these changes in one step:
\* from Pending through Running to Completed or Failed.)
C23_TaskStatusMonotonic ==
  [][\A wid \in 1..Len(workflows) : \A i \in 1..Len(workflows[wid].tasks) :
       LET before == workflows[wid].tasks[i].status
           after == workflows'[wid].tasks[i].status IN
       /\ after /= SKIPPED
       /\ after /= before =>
            \/ before = PENDING /\ after \in {RUNNING, COMPLETED, FAILED}
            \/ before = RUNNING /\ after \in {COMPLETED, FAILED}]_vars

\* C24: a task has a result only while it is Completed and an error only
\* while it is Failed; in particular no Failed task has a result.
C24_ResultOnlyOnCompletedErrorOnlyOnFailed ==
  \A wid \in 1..Len(workflows) :
    LET w == workflows[wid] IN
    \A i \in 1..Len(w.tasks) :
      /\ w.tasks[i].result /= None => w.tasks[i].status = COMPLETED
      /\ w.tasks[i].error /= None => w.tasks[i].status = FAILED

\* The names agents are registered or looked up under.
AgentNames == {AllAgents[i].name : i \in 1..Len(AllAgents)} \cup {"ghost"}

\* AgentRegistry.get_agent(name) after the step.
resolved_next(name) == IF name \in DOMAIN agents' THEN agents'[name] ELSE 0

\* C25: register_agent makes its instance the one its name resolves to,
\* whatever the name resolved to before, and changes no other name's
\* resolution; a name's resolution changes in no other way, so a name never
\* registered resolves to None.
C25_RegistryLastWriteWins ==
  [][/\ \A i \in 1..Len(AllAgents) :
          register_agent(i) =>
            /\ resolved_next(AllAgents[i].name) = i
            /\ \A name \in AgentNames \ {AllAgents[i].name} :
                 resolved_next(name) = get_agent(name)
     /\ \A name \in AgentNames :
          resolved_next(name) /= get_agent(name) =>
            \E i \in 1..Len(AllAgents) :
              register_agent(i) /\ AllAgents[i].name = name]_vars

\* "worker" resolves to the second instance registered under it, while a task
\* dispatched earlier is with the first; "ghost" was never registered.
C25_ReplacedAgentWitness ==
  /\ get_agent("worker") = 3
  /\ get_agent("steady") = 2
  /\ get_agent("ghost") = 0
  /\ \E c \in 1..Len(calls) : \E k \in 1..Len(calls[c].batch) :
       calls[c].batch[k].agent = 1

\* This step is a step of the execution or of the cancellation of workflow
\* wid.
StepOf(wid) ==
  \/ cancel_workflow(wid)
  \/ \E c \in 1..Len(calls) :
       /\ calls[c].workflow_id = wid
       /\ \/ execute_workflow(c)
          \/ resume_workflow(c)
          \/ \E k \in 1..Len(calls[c].batch) :
               \E outcome \in AllOutcomes \cup {NoOutcome} :
                 start_task(c, k, outcome) \/ finish_task(c, k, outcome)

\* Workflow wid was executed by one call only and never cancelled.
ExecutedAlone(wid) ==
  /\ Cardinality({c \in 1..Len(calls) : calls[c].workflow_id = wid}) = 1
  /\ wid \notin DOMAIN cancel_result
  /\ Executed(wid)

\* C26: workflows are isolated.  A workflow changes only in steps of its own
\* execution or cancellation, whatever other workflows are running; and a
\* workflow executed by one call beside other workflows ends as it does
\* alone: Completed with every task Completed when no executor failed,
\* Failed with the dependents of a task whose executor raised still Pending.
C26_WorkflowsIsolated ==
  [][\A wid \in 1..Len(workflows) :
       /\ workflows'[wid] /= workflows[wid] => StepOf(wid)
       /\ ExecutedAlone(wid)' =>
            LET w == workflows'[wid] IN
            /\ (WellFormed(w) /\ NoFailureSeen(w)) =>
                 AllCompleted(w) /\ w.status = COMPLETED
            /\ \A i \in 1..Len(w.tasks) :
                 w.tasks[i].error = Some(<<"boom">>) =>
                   /\ w.tasks[i].status = FAILED
                   /\ w.status = FAILED
                   /\ \A j \in 1..Len(w.tasks) :
                        DependsOn(w, j, i) => w.tasks[j].status = PENDING]_vars

\* Two workflows were executed side by side, their batches in flight at the
\* same time; one ended Completed, the other Failed.
C26_SideBySideWitness ==
  \E c1, c2 \in 1..Len(calls) :
    /\ calls[c1].workflow_id /= calls[c2].workflow_id
    /\ Ran(c1) /\ Ran(c2)
    /\ "error" \notin DOMAIN calls[c1].result[1]
    /\ "error" \notin DOMAIN calls[c2].result[1]
    /\ calls[c1].result[1].status = COMPLETED
    /\ calls[c2].result[1].status = FAILED
    /\ workflow_history = <<calls[c2].workflow_id, calls[c1].workflow_id>>
    /\ \E i \in 1..Len(workflows[calls[c2].workflow_id].tasks) :
         workflows[calls[c2].workflow_id].tasks[i].error = Some(<<"boom">>)

\* In this step the coroutine of job k of call c hands its task to the
\* executor: process_task is invoked.
Dispatches(c, k) ==
  /\ calls[c].batch[k].pc = "queued"
  /\ k <= Len(calls'[c].batch)
  /\ calls'[c].batch[k].agent /= 0

\* C27: every task is dispatched to its executor at most once, overlapping
\* execute calls on the same active id included.  A dispatched task is never
\* Pending again, so this is: whenever a task is handed to its executor it is
\* still Pending.
C27_TaskDispatchedAtMostOnce ==
  [][\A c \in 1..Len(calls) : \A k \in 1..Len(calls[c].batch) :
       Dispatches(c, k) =>
         workflows[calls[c].workflow_id].tasks[calls[c].batch[k].task].status
           = PENDING]_vars

\* C28: execute terminates for every finite workflow, cyclic,
\* self-referencing and dangling dependencies included, provided every
\* executor call comes back: every execute call made eventually returns,
\* and each round of its loop is left with the tasks of its batch, at least
\* one, out of Pending.
C28_ExecuteTerminates ==
  /\ \A c \in 1..MaxCalls :
       (Len(calls) >= c) ~> (Len(calls) >= c /\ calls[c].pc = "returned")
  /\ [][\A c \in 1..Len(calls) :
         (calls[c].pc = "waiting" /\ resume_workflow(c)) =>
           /\ calls[c].batch /= << >>
           /\ \A k \in 1..Len(calls[c].batch) :
                workflows[calls[c].workflow_id].tasks[calls[c].batch[k].task]
                  .status /= PENDING]_vars

\* An execute call has returned from a workflow in which a task was run to
\* completion and another, whose dependency matches no task, is left Pending.
C28_TerminatedWitness ==
  \E c \in 1..Len(calls) :
    /\ Ran(c)
    /\ LET w == workflows[calls[c].workflow_id] IN
       /\ \E i \in 1..Len(w.tasks) :
            Dangling(w, i) /\ w.tasks[i].status = PENDING
       /\ \E i \in 1..Len(w.tasks) : w.tasks[i].status = COMPLETED

\* C29: batches are synchronous.  execute_workflow goes back to computing
\* the ready set only when every coroutine of its current batch has ended
\* and every task of that batch is Completed or Failed: none is Running
\* while a later batch is put together.
C29_BatchesSynchronous ==
  [][\A c \in 1..Len(calls) :
       (calls[c].pc = "waiting" /\ resume_workflow(c)) =>
         /\ AllDone(calls[c].batch)
         /\ \A k \in 1..Len(calls[c].batch) :
              workflows[calls[c].workflow_id].tasks[calls[c].batch[k].task]
                .status \in {COMPLETED, FAILED}]_vars

\* The positions, in w's task sequence, of the tasks that are ready: Pending,
\* with every dependency naming a Completed task of w.
ReadyPositions(w) ==
  {i \in 1..Len(w.tasks) :
     /\ w.tasks[i].status = PENDING
     /\ \A dep_id \in w.tasks[i].dependencies :
          \E j \in 1..Len(w.tasks) :
            w.tasks[j].id = dep_id /\ w.tasks[j].status = COMPLETED}

\* In this step call c puts a new batch together.
StartsBatch(c) ==
  /\ execute_workflow(c) \/ resume_workflow(c)
  /\ calls'[c].pc = "waiting"

\* C30: each batch is the first min(|ready|, max_concurrent_tasks) ready
\* tasks in the order of the task sequence (its k-th task is the ready task
\* with k-1 ready tasks before it), and the coroutines of a batch are started
\* in that order.
C30_BatchIsReadyPrefixInOrder ==
  [][\A c \in 1..Len(calls) :
       /\ StartsBatch(c) =>
            LET ready == ReadyPositions(workflows'[calls[c].workflow_id])
                batch == calls'[c].batch IN
            /\ Len(batch) = Min(Cardinality(ready), max_concurrent_tasks)
            /\ \A k \in 1..Len(batch) :
                 /\ batch[k].task \in ready
                 /\ Cardinality({i \in ready : i < batch[k].task}) = k - 1
       /\ \A k \in 1..Len(calls[c].batch) :
            (calls[c].batch[k].pc = "queued"
               /\ k <= Len(calls'[c].batch)
               /\ calls'[c].batch[k].pc /= "queued") =>
              \A earlier \in 1..(k - 1) :
                calls[c].batch[earlier].pc /= "queued"]_vars

\* Six tasks are ready and the batch holds the first five, in order; its
\* first two coroutines have started, the others have not, and the sixth
\* task waits.
C30_PrefixDispatchedWitness ==
  \E c \in 1..Len(calls) :
    LET batch == calls[c].batch
        w == workflows[calls[c].workflow_id] IN
    /\ Len(batch) = max_concurrent_tasks
    /\ Len(w.tasks) > max_concurrent_tasks
    /\ \A k \in 1..Len(batch) : batch[k].task = k
    /\ \A k \in 1..Len(batch) : batch[k].pc = "queued" <=> k > 2
    /\ w.tasks[max_concurrent_tasks + 1].status = PENDING

\* An execute call on workflow wid is past its lookup and has not returned.
Executing(wid) ==
  \E c \in 1..Len(calls) :
    calls[c].workflow_id = wid /\ calls[c].pc = "waiting"

\* C31: a task failure does not abort the workflow.  While execute runs,
\* every task that is Pending with all its dependencies Completed is
\* eventually dispatched, failed tasks or not; and when execute returns an
\* outcome no task is Pending with all its dependencies Completed.
C31_ReadyTasksAreDispatched ==
  /\ \A wid \in 1..MaxWorkflows : \A i \in 1..WideTasks :
       (IF Len(workflows) >= wid /\ Len(workflows[wid].tasks) >= i
        THEN Executing(wid) /\ i \in ReadyPositions(workflows[wid])
        ELSE FALSE)
         ~> (IF Len(workflows) >= wid /\ Len(workflows[wid].tasks) >= i
             THEN workflows[wid].tasks[i].status /= PENDING
             ELSE FALSE)
  /\ [][\A c \in 1..Len(calls) :
         ReturnsOutcome(c) =>
           ReadyPositions(workflows'[calls[c].workflow_id]) = {}]_vars

\* Both tasks of w are Completed and global_context["summary"] is `value`.
RaceEndedWith(w, value) ==
  /\ \A i \in 1..Len(w.tasks) : w.tasks[i].status = COMPLETED
  /\ "summary" \in DOMAIN w.global_context
  /\ w.global_context["summary"] = value

\* C32: when two tasks of one batch map the same global_context key, the
\* value left is that of the task that completes last: a task that completes
\* with the mapped field in a successful result replaces the value the other
\* wrote, and nothing but such a completion changes global_context.
C32_LastCompletionWins ==
  [][\A wid \in 1..Len(workflows) :
       LET before == workflows[wid].global_context
           after == workflows'[wid].global_context IN
       /\ \A c \in 1..Len(calls) : \A k \in 1..Len(calls[c].batch) :
            \A outcome \in AllOutcomes :
              (calls[c].workflow_id = wid /\ TaskReturns(c, k, outcome)
                 /\ succeeded(outcome.value)) =>
                LET task == workflows[wid].tasks[calls[c].batch[k].task] IN
                \A key \in DOMAIN Directive(task) :
                  Directive(task)[key] \in DOMAIN outcome.value =>
                    /\ key \in DOMAIN after
                    /\ after[key] = outcome.value[Directive(task)[key]]
       /\ after /= before =>
            \E c \in 1..Len(calls) : \E k \in 1..Len(calls[c].batch) :
              \E outcome \in AllOutcomes :
                calls[c].workflow_id = wid /\ TaskReturns(c, k, outcome)]_vars

\* Both completion orders happened: in one workflow the worker's task
\* completed last and "summary" is its text, in the other the steady agent's
\* task completed last and "summary" is its name.
C32_BothOrdersWitness ==
  \E first, second \in 1..Len(workflows) :
    /\ RaceEndedWith(workflows[first], "hello")
    /\ RaceEndedWith(workflows[second], "steady")
    /\ \A wid \in {first, second} :
         /\ workflows[wid].tasks[1].result = Some(ResultHello)
         /\ \E c \in 1..Len(calls) :
              /\ calls[c].workflow_id = wid
              /\ Ran(c)
              /\ \A other \in 1..Len(calls) :
                   calls[other].workflow_id = wid => other = c

\* cancel_workflow has returned True for workflow wid.
Cancelled(wid) == wid \in DOMAIN cancel_result /\ cancel_result[wid]

\* C33: a cancel during an awaited batch does not interrupt the dispatched
\* executions.  The cancel leaves the calls and the loop's queue as they are;
\* every task that is Running in a cancelled workflow still reaches Completed
\* or Failed; and the coroutine that ends after the workflow went to the
\* history writes the task's status, its result and its global_context
\* updates into that workflow.
C33_CancelDoesNotInterruptDispatched ==
  /\ \A wid \in 1..MaxWorkflows : \A i \in 1..WideTasks :
       (IF Len(workflows) >= wid /\ Len(workflows[wid].tasks) >= i
        THEN Cancelled(wid) /\ workflows[wid].tasks[i].status = RUNNING
        ELSE FALSE)
         ~> (IF Len(workflows) >= wid /\ Len(workflows[wid].tasks) >= i
             THEN workflows[wid].tasks[i].status \in {COMPLETED, FAILED}
             ELSE FALSE)
  /\ [][\A wid \in 1..Len(workflows) :
         /\ cancel_workflow(wid) =>
              calls' = calls /\ loop_ready' = loop_ready
         /\ \A c \in 1..Len(calls) : \A k \in 1..Len(calls[c].batch) :
              \A outcome \in AllOutcomes :
                (/\ calls[c].workflow_id = wid
                 /\ Cancelled(wid)
                 /\ Archived(wid) > 0
                 /\ finish_task(c, k, outcome)) =>
                  LET i == calls[c].batch[k].task
                      task == workflows'[wid].tasks[i]
                      after == workflows'[wid].global_context IN
                  /\ task.status \in {COMPLETED, FAILED}
                  /\ outcome.kind = "raise" =>
                       task.status = FAILED /\ task.error = Some(outcome.value)
                  /\ outcome.kind = "return" =>
                       /\ task.result = Some(outcome.value)
                       /\ succeeded(outcome.value) =>
                            \A key \in DOMAIN Directive(task) :
                              Directive(task)[key] \in DOMAIN outcome.value =>
                                /\ key \in DOMAIN after
                                /\ after[key] =
                                     outcome.value[Directive(task)[key]]]_vars

\* A workflow was cancelled while its execute awaited the batch: it is in the
\* history, Cancelled, and the executor call dispatched before the cancel has
\* come back with a result that the suspended coroutine is about to write.
C33_InFlightWhenCancelledWitness ==
  \E wid \in 1..Len(workflows) :
    LET w == workflows[wid] IN
    /\ Cancelled(wid)
    /\ Archived(wid) > 0
    /\ wid \notin active_workflows
    /\ w.status = CANCELLED
    /\ Len(calls) = 1
    /\ calls[1].pc = "waiting"
    /\ Len(calls[1].batch) = 1
    /\ calls[1].batch[1].pc = "resolved"
    /\ w.tasks[1].status = RUNNING
    /\ w.tasks[1].result = None
    /\ RunsNext(Callback("wake", 1, 1, Returns(ResultHello)))
    /\ "update_global_context" \in DOMAIN w.tasks[1].context
    /\ w.global_context = EmptyDict

\* C34: once cancel_workflow has returned True for a workflow, no further
\* task of it is dispatched: a task that is Pending stays Pending.
C34_NoDispatchAfterCancel ==
  [][\A wid \in 1..Len(workflows) : \A i \in 1..Len(workflows[wid].tasks) :
       (Cancelled(wid) /\ workflows[wid].tasks[i].status = PENDING) =>
         workflows'[wid].tasks[i].status = PENDING]_vars

\* C35: every created workflow is in exactly one of the active set and the
\* history, and it is in the history exactly when its status is Completed,
\* Failed or Cancelled.
C35_ActiveXorArchivedIffTerminal ==
  \A wid \in 1..Len(workflows) :
    /\ (wid \in active_workflows) /= (Archived(wid) > 0)
    /\ Archived(wid) > 0 <=>
         workflows[wid].status \in {COMPLETED, FAILED, CANCELLED}

\* C36: executing a workflow with no tasks dispatches nothing and ends
\* Completed: the call returns at once, without a batch and without queuing
\* a coroutine, an outcome with status completed and completed_tasks,
\* failed_tasks and total_tasks all 0.
C36_EmptyWorkflowCompletes ==
  [][\A c \in 1..Len(calls) :
       LET wid == calls[c].workflow_id IN
       (/\ execute_workflow(c)
        /\ lookup_active(wid)
        /\ Len(workflows[wid].tasks) = 0) =>
         /\ calls'[c].pc = "returned"
         /\ calls'[c].batch = << >>
         /\ loop_ready' = Tail(loop_ready)
         /\ workflows'[wid].status = COMPLETED
         /\ "error" \notin DOMAIN calls'[c].result[1]
         /\ calls'[c].result[1].status = COMPLETED
         /\ calls'[c].result[1].completed_tasks = 0
         /\ calls'[c].result[1].failed_tasks = 0
         /\ calls'[c].result[1].total_tasks = 0
         /\ calls'[c].result[1].results = << >>]_vars

\* A workflow without tasks was executed: it is Completed and in the history,
\* and the call returned an outcome with total_tasks 0.
C36_EmptyExecutedWitness ==
  \E c \in 1..Len(calls) :
    /\ Ran(c)
    /\ "error" \notin DOMAIN calls[c].result[1]
    /\ calls[c].result[1].total_tasks = 0
    /\ workflows[calls[c].workflow_id].tasks = << >>
    /\ workflows[calls[c].workflow_id].status = COMPLETED
    /\ Archived(calls[c].workflow_id) = 1

\* C37: create_workflow returns a new workflow with status Pending, one task
\* per definition in the order given, each Pending without result or error,
\* with the id of its definition or, when the definition has none, a
\* generated id no other task of the workflow has; the workflow enters the
\* active set under an id no workflow had; every existing workflow, the rest
\* of the active set and the history are unchanged.
C37_CreateAddsOnePendingWorkflow ==
  [][\A defs \in CreateLists :
       create_workflow(defs) =>
         LET workflow_id == Len(workflows') IN
         LET w == workflows'[workflow_id] IN
         /\ Len(workflows') = Len(workflows) + 1
         /\ workflow_id \notin WorkflowIds
         /\ w.id = workflow_id
         /\ w.status = PENDING
         /\ w.global_context = EmptyDict
         /\ Len(w.tasks) = Len(defs)
         /\ \A i \in 1..Len(defs) :
              /\ w.tasks[i].status = PENDING
              /\ w.tasks[i].result = None
              /\ w.tasks[i].error = None
              /\ w.tasks[i].name = defs[i].name
              /\ w.tasks[i].agent_name = defs[i].agent_name
              /\ w.tasks[i].dependencies = defs[i].dependencies
              /\ w.tasks[i].context = defs[i].context
              /\ IF "id" \in DOMAIN defs[i]
                 THEN w.tasks[i].id = defs[i].id
                 ELSE \A j \in 1..Len(defs) :
                        j /= i => w.tasks[j].id /= w.tasks[i].id
         /\ active_workflows' = active_workflows \cup {workflow_id}
         /\ workflow_id \notin active_workflows
         /\ \A wid \in 1..Len(workflows) : workflows'[wid] = workflows[wid]
         /\ workflow_history' = workflow_history]_vars

\* A second workflow was created from definitions without ids while the
\* first, executed, is in the history: the new one is Pending and active
\* with generated task ids, the first is as it ended.
C37_CreatedBesideArchivedWitness ==
  /\ Len(workflows) = 2
  /\ workflow_history = <<1>>
  /\ active_workflows = {2}
  /\ workflows[1].status = COMPLETED
  /\ workflows[2].status = PENDING
  /\ Len(workflows[2].tasks) = Len(AnonymousTasks)
  /\ \A i \in 1..Len(workflows[2].tasks) :
       workflows[2].tasks[i].status = PENDING
  /\ workflows[2].tasks[1].id /= workflows[2].tasks[2].id
  /\ workflows[2].tasks[1].name = "first"

\* C38: in every workflow create_workflow produced, no two tasks have the
\* same id.
C38_TaskIdsUnique ==
  \A wid \in 1..Len(workflows) :
    \A i, j \in 1..Len(workflows[wid].tasks) :
      i /= j => workflows[wid].tasks[i].id /= workflows[wid].tasks[j].id

\* The outcome execute_workflow returned describes workflow w as it is: its
\* status, its counts and the status of each task.
OutcomeStillHolds(outcome, w) ==
  /\ outcome.status = w.status
  /\ outcome.total_tasks = Len(w.tasks)
  /\ outcome.completed_tasks = Cardinality(get_completed_tasks(w))
  /\ outcome.failed_tasks = Cardinality(get_failed_tasks(w))
  /\ \A i \in 1..Len(w.tasks) : outcome.results[i].status = w.tasks[i].status

\* C39: the outcome execute_workflow returns describes the workflow as the
\* call leaves it, and as long as nothing has changed the workflow since,
\* get_workflow_status on the same id reports the outcome's status,
\* total_tasks, completed_tasks and failed_tasks and the same status for
\* each task.
C39_StatusAgreesWithOutcome ==
  [][\A c \in 1..Len(calls) :
       LET wid == calls[c].workflow_id IN
       /\ ReturnsOutcome(c) =>
            OutcomeStillHolds(calls'[c].result[1], workflows'[wid])
       /\ (/\ Ran(c)
           /\ "error" \notin DOMAIN calls[c].result[1]
           /\ OutcomeStillHolds(calls[c].result[1], workflows[wid])
           /\ get_workflow_status(wid)) =>
            LET outcome == calls[c].result[1]
                returned == status_result'[1].returned IN
            /\ returned /= None
            /\ returned[1].id = outcome.workflow_id
            /\ returned[1].status = outcome.status
            /\ returned[1].total_tasks = outcome.total_tasks
            /\ returned[1].completed_tasks = outcome.completed_tasks
            /\ returned[1].failed_tasks = outcome.failed_tasks
            /\ \A i \in 1..outcome.total_tasks :
                 /\ returned[1].task_details[i].id = outcome.results[i].task_id
                 /\ returned[1].task_details[i].status =
                      outcome.results[i].status]_vars

\* get_workflow_status was asked about a workflow whose execute had returned
\* an outcome with one task completed and one failed, and reported the same.
C39_ReportedAfterOutcomeWitness ==
  /\ status_result /= None
  /\ status_result[1].returned /= None
  /\ \E c \in 1..Len(calls) :
       /\ Ran(c)
       /\ calls[c].workflow_id = status_result[1].workflow_id
       /\ "error" \notin DOMAIN calls[c].result[1]
       /\ calls[c].result[1].status = FAILED
       /\ calls[c].result[1].completed_tasks = 1
       /\ calls[c].result[1].failed_tasks = 1
       /\ status_result[1].returned[1].status = FAILED
       /\ status_result[1].returned[1].completed_tasks = 1
       /\ status_result[1].returned[1].failed_tasks = 1

====
